---- MODULE Spec2Model ----
(***************************************************************************)
(* Model of src/services/bright.py: the version probe (BrightBase.version),*)
(* the two adapters (Bright7, Bright8), the adapter factory and the facade *)
(* BrightSvc (construction, health_check, health_checks).                  *)
(*                                                                         *)
(* Strings that the code parses (version strings) are sequences of         *)
(* one-character strings.  Python's None is a distinguished value of the   *)
(* same shape as the values it stands in for.  A JSON object is a record   *)
(* with its set of present keys ("keys") and one typed field per key the   *)
(* code reads.                                                             *)
(***************************************************************************)
EXTENDS Integers, Sequences, FiniteSets, TLC

VARIABLES
    pc,             \* position of the facade: new, select, failed, ready, m7, e7, d7, d8, done
    versionArg,     \* the `version` argument of BrightSvc.__init__
    version,        \* BrightSvc.version
    instance,       \* class of BrightSvc.instance: "none", "Bright7", "Bright8"
    error,          \* exception raised by the last operation, "none" when it returned
    op,             \* facade operation in progress or last completed
    key,            \* `key` of the health_check in progress
    node,           \* `node` argument of the operation
    idx,            \* position of health_checks in supported_measurables()
    lookedUp,       \* keys health_checks has passed to health_check, in call order
    checks,         \* values the generator of health_checks has yielded so far
    result,         \* return value of the last completed health_check (a 0/1-length
                    \* sequence: <<>> is None) or health_checks (a sequence)
    measurable_id,  \* Bright7.latest_measurable_data local
    entity_id,      \* Bright7.latest_measurable_data local
    reqs,           \* requests sent on the session during the current operation
    allEmpty,       \* every response received during the current operation was {}
    ncalls          \* facade operations started since construction

vars == <<pc, versionArg, version, instance, error, op, key, node, idx, lookedUp,
          checks, result, measurable_id, entity_id, reqs, allEmpty, ncalls>>

-----------------------------------------------------------------------------
(* Bounds of the model *)

MaxLen == 3         \* longest version string
MaxRecs == 2        \* most records in one upstream data response
MaxCalls == 2       \* facade operations per facade instance
MaxTime == 1        \* largest reading of time.time(), in seconds

(* Program constants *)

DefaultTimeout == 5

-----------------------------------------------------------------------------
(* Python values *)

None == <<"None">>              \* None where a version string is expected
NoneNode == "<None>"            \* None where a node name is expected
NoneKey == 0 - 1                \* None where a uniqueKey is expected

Digits == {"7", "8", "9"}
Alphabet == Digits \cup {".", "a", "i", "n", "f"}

RECURSIVE StringsOfLen(_)
StringsOfLen(n) ==
    IF n = 0 THEN {<<>>}
    ELSE {Append(s, c) : s \in StringsOfLen(n - 1), c \in Alphabet}

VersionStrings == UNION {StringsOfLen(n) : n \in 0..MaxLen}

\* truth value of `version` in `version or ...`: None and "" are falsy
Falsy(v) == v = None \/ v = <<>>

\* truth value of a uniqueKey in `not entity_id`: None and 0 are falsy
Truthy(id) == id # NoneKey /\ id # 0

DigitVal(c) == CASE c = "7" -> 7 [] c = "8" -> 8 [] c = "9" -> 9 [] OTHER -> 0

RECURSIVE Decimal(_)
Decimal(ds) ==
    IF ds = <<>> THEN 0
    ELSE 10 * Decimal(SubSeq(ds, 1, Len(ds) - 1)) + DigitVal(ds[Len(ds)])

RECURSIVE Pow10(_)
Pow10(n) == IF n = 0 THEN 1 ELSE 10 * Pow10(n - 1)

IsDigits(s) == \A i \in 1..Len(s) : s[i] \in Digits

Dots(s) == {i \in 1..Len(s) : s[i] = "."}

Float(cls, num, den, err) == [cls |-> cls, num |-> num, den |-> den, err |-> err]

\* float(v) for None and for strings over Alphabet: a finite value num/den,
\* inf, nan, or the exception raised
PyFloat(v) ==
    IF v = None THEN Float("none", 0, 1, "TypeError")
    ELSE IF v = <<"i", "n", "f">> THEN Float("inf", 0, 1, "none")
    ELSE IF v = <<"n", "a", "n">> THEN Float("nan", 0, 1, "none")
    ELSE IF Dots(v) = {} /\ Len(v) > 0 /\ IsDigits(v)
        THEN Float("finite", Decimal(v), 1, "none")
    ELSE IF Cardinality(Dots(v)) = 1
        THEN LET p == CHOOSE i \in Dots(v) : TRUE
                 ip == SubSeq(v, 1, p - 1)
                 fp == SubSeq(v, p + 1, Len(v))
             IN IF IsDigits(ip) /\ IsDigits(fp) /\ Len(ip) + Len(fp) > 0
                THEN Float("finite", Decimal(ip \o fp), Pow10(Len(fp)), "none")
                ELSE Float("none", 0, 1, "ValueError")
    ELSE Float("none", 0, 1, "ValueError")

\* int(f) of a float: truncation; [val, err]
PyInt(f) ==
    CASE f.cls = "finite" -> [val |-> f.num \div f.den, err |-> "none"]
      [] f.cls = "inf"    -> [val |-> 0, err |-> "OverflowError"]
      [] f.cls = "nan"    -> [val |-> 0, err |-> "ValueError"]

\* round(x) of a float given in tenths: round half to even
PyRound(tenths) ==
    LET q == tenths \div 10
        r == tenths % 10
    IN IF r < 5 THEN q
       ELSE IF r > 5 THEN q + 1
       ELSE IF q % 2 = 0 THEN q ELSE q + 1

-----------------------------------------------------------------------------
(* JSON responses of the appliance *)

Response(keys, cmVersion, uniqueKey, data, isList, items) ==
    [keys |-> keys, cmVersion |-> cmVersion, uniqueKey |-> uniqueKey,
     data |-> data, isList |-> isList, items |-> items]

EmptyObject == Response({}, None, NoneKey, <<>>, FALSE, <<>>)

\* dict.get(name) / dict.get("data", [])
GetVersion(r) == IF "cmVersion" \in r.keys THEN r.cmVersion ELSE None
GetUniqueKey(r) == IF "uniqueKey" \in r.keys THEN r.uniqueKey ELSE NoneKey
GetData(r) == IF "data" \in r.keys THEN r.data ELSE <<>>

\* iteration over the JSON value: the items of a list, nothing for {}
Items(r) == IF r.isList THEN r.items ELSE <<>>

RECURSIVE SeqsUpTo(_, _)
SeqsUpTo(S, n) ==
    IF n = 0 THEN {<<>>}
    ELSE LET shorter == SeqsUpTo(S, n - 1)
         IN shorter \cup {Append(s, x) : s \in {t \in shorter : Len(t) = n - 1}, x \in S}

Times == 0..MaxTime
Rates == {0, 15, 90}                    \* rates in tenths: 0.0, 1.5, 9.0
Labels == {"PASS", "FAIL", "BOGUS"}
Ids == {0, 5}

VersionResponses ==
    {EmptyObject} \cup
    {Response({"cmVersion"}, s, NoneKey, <<>>, FALSE, <<>>) : s \in VersionStrings}

KeyResponses ==
    {EmptyObject} \cup
    {Response({"uniqueKey"}, None, k, <<>>, FALSE, <<>>) : k \in Ids}

Raw7 == {[rate |-> r, timeStamp |-> 0] : r \in Rates}

Raw8(k, n) ==
    {[measurable |-> k, entity |-> IF n = NoneNode THEN "n1" ELSE n,
      time |-> 0, age |-> 0, value |-> l] : l \in Labels}

Rates7Responses ==
    {EmptyObject} \cup
    {Response({}, None, NoneKey, <<>>, TRUE, l) : l \in SeqsUpTo(Raw7, MaxRecs)}

Latest8Responses(k, n) ==
    {EmptyObject} \cup
    {Response({"data"}, None, NoneKey, d, FALSE, <<>>) : d \in SeqsUpTo(Raw8(k, n), MaxRecs)}

-----------------------------------------------------------------------------
(* Requests sent on the session *)

Request(method, path, service, call, arg, ids, query, timeout) ==
    [method |-> method, path |-> path, service |-> service, call |-> call,
     arg |-> arg, ids |-> ids, query |-> query, timeout |-> timeout]

\* BrightBase.version: POST {url}/json, cmmain.getVersion
VersionRequest ==
    Request("POST", "/json", "cmmain", "getVersion", "", <<>>, <<>>, {DefaultTimeout})

-----------------------------------------------------------------------------
(* Adapter factory *)

Adapter(kind, err) == [kind |-> kind, err |-> err]

factory(v) ==
    LET f == PyFloat(v)
        m == PyInt(f)
    IN IF f.err # "none" THEN Adapter("none", f.err)
       ELSE IF m.err # "none" THEN Adapter("none", m.err)
       ELSE IF m.val \notin {7, 8} THEN Adapter("none", "ValueError")
       ELSE IF m.val = 7 THEN Adapter("Bright7", "none")
       ELSE Adapter("Bright8", "none")

-----------------------------------------------------------------------------
(* State after the caller has picked the constructor's arguments *)

Init ==
    /\ pc = "new"
    /\ versionArg \in VersionStrings \cup {None}
    /\ version = None
    /\ instance = "none"
    /\ error = "none"
    /\ op = "init"
    /\ key = ""
    /\ node = NoneNode
    /\ idx = 0
    /\ lookedUp = <<>>
    /\ checks = <<>>
    /\ result = <<>>
    /\ measurable_id = NoneKey
    /\ entity_id = NoneKey
    /\ reqs = <<>>
    /\ allEmpty = TRUE
    /\ ncalls = 0

callVars == <<op, key, node, idx, lookedUp, checks, result, measurable_id, entity_id, ncalls>>

\* the probe evaluated whatever the argument
NeedsProbeAlways(v) == TRUE

\* `version or Bright(url=url, **kwargs).version`: is the probe evaluated
NeedsProbe(v) == Falsy(v)

\* BrightSvc.__init__, line 210, explicit version
InitExplicit ==
    /\ pc = "new"
    /\ ~NeedsProbe(versionArg)
    /\ version' = versionArg
    /\ pc' = "select"
    /\ UNCHANGED <<versionArg, instance, error, reqs, allEmpty>>
    /\ UNCHANGED callVars

\* BrightSvc.__init__, line 210, probed version: BrightBase.version answered
InitProbe ==
    /\ pc = "new"
    /\ NeedsProbe(versionArg)
    /\ \E r \in VersionResponses :
        /\ reqs' = Append(reqs, VersionRequest)
        /\ allEmpty' = (allEmpty /\ r = EmptyObject)
        /\ version' = GetVersion(r)
    /\ pc' = "select"
    /\ UNCHANGED <<versionArg, instance, error>>
    /\ UNCHANGED callVars

\* BrightSvc.__init__, line 210: the probe's POST raises (timeout, connection)
InitProbeFails ==
    /\ pc = "new"
    /\ NeedsProbe(versionArg)
    /\ reqs' = Append(reqs, VersionRequest)
    /\ error' = "RequestException"
    /\ pc' = "failed"
    /\ UNCHANGED <<versionArg, version, instance, allEmpty>>
    /\ UNCHANGED callVars

\* BrightSvc.__init__, lines 211-213: factory(self.version)(...)
InitSelect ==
    /\ pc = "select"
    /\ LET a == factory(version)
       IN /\ instance' = a.kind
          /\ error' = a.err
          /\ pc' = IF a.err = "none" THEN "ready" ELSE "failed"
    /\ UNCHANGED <<versionArg, version, reqs, allEmpty>>
    /\ UNCHANGED callVars

-----------------------------------------------------------------------------
(* Configuration: current_app.config["SUPPORTED_MEASURABLES"] *)

supported_measurables == <<"foo", "bar", "third">>

Range(s) == {s[i] : i \in 1..Len(s)}

\* the allow-list test left out
IsSupportedAlways(k) == TRUE

\* `key not in self.supported_measurables()` is false
IsSupported(k) == k \in Range(supported_measurables)

CheckNames == Range(supported_measurables) \cup {"unsupported"}
Nodes == {NoneNode, "n1"}

-----------------------------------------------------------------------------
(* Requests of the adapters *)

\* Bright7.measurable: POST self.base
MeasurableRequest7(k) ==
    Request("POST", "/json", "cmmon", "getHealthcheck", k, <<>>, <<>>, {DefaultTimeout})

\* Bright7.entity: POST self.base
EntityRequest7(n) ==
    Request("POST", "/json", "cmdevice", "getDevice", n, <<>>, <<>>, {DefaultTimeout})

\* Bright7.latest_measurable_data: POST self.url, no timeout argument
RatesRequest7(eid, mid) ==
    Request("POST", "", "cmmon", "getLatestPickedRates", "", <<eid, mid>>, <<>>, {})

\* Bright8.measurable: POST {url}/json
MeasurableRequest8(k) ==
    Request("POST", "/json", "cmmon", "getMonitoringMeasurable", k, <<>>, <<>>,
            {DefaultTimeout})

\* Bright8.latest_measurable_data: GET {base}/monitoring/latest?urlencode(params)
LatestRequest8(k, n) ==
    Request("GET", "/rest/v1/monitoring/latest", "", "", "", <<>>,
            <<<<"measurable", k>>>> \o (IF n # NoneNode THEN <<<<"entity", n>>>> ELSE <<>>),
            {DefaultTimeout})

-----------------------------------------------------------------------------
(* Mappers.  An optional value is a sequence of length 0 (None) or 1. *)

\* HealthCheckStatus(value): the enum member, "invalid" when the lookup raises
HealthCheckStatusOrdinal(n) ==
    CASE n = 0 -> "ONLINE" [] n = 2 -> "OFFLINE" [] OTHER -> "invalid"

HealthCheckStatusLabel(l) ==
    CASE l = "PASS" -> "ONLINE" [] l = "FAIL" -> "OFFLINE" [] OTHER -> "invalid"

HealthCheck(name, status, n, timestamp, seconds_ago, raw) ==
    [name |-> name, status |-> status, node |-> n, timestamp |-> timestamp,
     seconds_ago |-> seconds_ago, raw |-> raw]

Mapped(hc, err) == [hc |-> hc, err |-> err]

\* next(iter(data), None)
First(data) == IF data = <<>> THEN <<>> ELSE <<data[1]>>

\* dict(**data, measurable=measurable, entity=entity) for each item
Augment(items, k, n) ==
    [i \in 1..Len(items) |->
        [rate |-> items[i].rate, timeStamp |-> items[i].timeStamp,
         measurable |-> k, entity |-> n]]

\* Bright7.measurable_mapper(raw) with time.time() = now
measurable_mapper7(raw, now) ==
    IF raw = <<>> THEN Mapped(<<>>, "none")
    ELSE LET r == raw[1]
             status == HealthCheckStatusOrdinal(PyRound(r.rate))
         IN IF status = "invalid" THEN Mapped(<<>>, "ValueError")
            ELSE Mapped(<<HealthCheck(r.measurable, status, r.entity, r.timeStamp,
                                      now - r.timeStamp, r)>>, "none")

\* Bright8.measurable_mapper without its `if raw else None`: None["measurable"] raises
measurable_mapper8Unguarded(raw) ==
    IF raw = <<>> THEN Mapped(<<>>, "TypeError")
    ELSE Mapped(<<HealthCheck(raw[1].measurable, HealthCheckStatusLabel(raw[1].value),
                              raw[1].entity, raw[1].time, raw[1].age, raw[1])>>, "none")

\* Bright8.measurable_mapper(raw)
measurable_mapper8(raw) ==
    IF raw = <<>> THEN Mapped(<<>>, "none")
    ELSE LET r == raw[1]
             status == HealthCheckStatusLabel(r.value)
         IN IF status = "invalid" THEN Mapped(<<>>, "ValueError")
            ELSE Mapped(<<HealthCheck(r.measurable, status, r.entity, r.time, r.age, r)>>,
                        "none")

\* the values that are not None, collected last first
RECURSIVE NotNoneReversed(_)
NotNoneReversed(cs) ==
    IF cs = <<>> THEN <<>>
    ELSE IF Head(cs) = <<>> THEN NotNoneReversed(Tail(cs))
    ELSE NotNoneReversed(Tail(cs)) \o <<Head(cs)[1]>>

\* [x for x in checks if x is not None]
RECURSIVE NotNone(_)
NotNone(cs) ==
    IF cs = <<>> THEN <<>>
    ELSE IF Head(cs) = <<>> THEN NotNone(Tail(cs))
    ELSE <<Head(cs)[1]>> \o NotNone(Tail(cs))

\* the short-circuit testing the entity id alone
NoIdsEntityOnly(eid, mid) == ~Truthy(eid)

\* `if not entity_id or not measurable_id: return []`
NoIds(eid, mid) == ~Truthy(eid) \/ ~Truthy(mid)

-----------------------------------------------------------------------------
(* Facade operations *)

Callable == pc \in {"ready", "done"} /\ ncalls < MaxCalls

\* latest_measurable_data of Bright7 starting at the node lookup
EnterAtEntity == IF instance = "Bright7" THEN "e7" ELSE "d8"

\* first step of the held adapter's latest_measurable_data
Enter == IF instance = "Bright7" THEN "m7" ELSE "d8"

consVars == <<versionArg, version, instance>>

\* BrightSvc.health_check, lines 236-241: the allow-list test, then the
\* delegation to the adapter
health_check(k, n) ==
    /\ Callable
    /\ op' = "health_check"
    /\ key' = k
    /\ node' = n
    /\ ncalls' = ncalls + 1
    /\ idx' = 0
    /\ lookedUp' = <<>>
    /\ checks' = <<>>
    /\ result' = <<>>
    /\ error' = "none"
    /\ reqs' = <<>>
    /\ allEmpty' = TRUE
    /\ measurable_id' = NoneKey
    /\ entity_id' = NoneKey
    /\ pc' = IF IsSupported(k) THEN Enter ELSE "done"
    /\ UNCHANGED consVars

\* BrightSvc.health_checks, lines 229-234: the generator's first health_check
health_checks(n) ==
    /\ Callable
    /\ op' = "health_checks"
    /\ node' = n
    /\ ncalls' = ncalls + 1
    /\ idx' = 1
    /\ key' = supported_measurables[1]
    /\ lookedUp' = <<supported_measurables[1]>>
    /\ checks' = <<>>
    /\ result' = <<>>
    /\ error' = "none"
    /\ reqs' = <<>>
    /\ allEmpty' = TRUE
    /\ measurable_id' = NoneKey
    /\ entity_id' = NoneKey
    /\ pc' = Enter
    /\ UNCHANGED consVars

\* BrightSvc.health_check, lines 242-243, and what the caller does with the
\* value: health_check returns it; health_checks yields it and either runs the
\* next health_check or returns the values that are not None
Return(m) ==
    IF m.err # "none"
    THEN /\ error' = m.err
         /\ pc' = "done"
         /\ UNCHANGED <<key, idx, lookedUp, checks, result>>
    ELSE IF op = "health_check"
    THEN /\ result' = m.hc
         /\ pc' = "done"
         /\ UNCHANGED <<key, idx, lookedUp, checks, error>>
    ELSE /\ checks' = Append(checks, m.hc)
         /\ IF idx < Len(supported_measurables)
            THEN /\ idx' = idx + 1
                 /\ key' = supported_measurables[idx + 1]
                 /\ lookedUp' = Append(lookedUp, supported_measurables[idx + 1])
                 /\ pc' = Enter
                 /\ UNCHANGED <<result, error>>
            ELSE /\ result' = NotNone(Append(checks, m.hc))
                 /\ pc' = "done"
                 /\ UNCHANGED <<key, idx, lookedUp, error>>

\* Bright7.latest_measurable_data, line 110: self.measurable(measurable)
Bright7Measurable ==
    /\ pc = "m7"
    /\ \E r \in KeyResponses :
        /\ reqs' = Append(reqs, MeasurableRequest7(key))
        /\ allEmpty' = (allEmpty /\ r = EmptyObject)
        /\ measurable_id' = GetUniqueKey(r)
    /\ entity_id' = NoneKey
    /\ pc' = "e7"
    /\ UNCHANGED <<op, key, node, idx, lookedUp, checks, result, error, ncalls>>
    /\ UNCHANGED consVars

\* Bright7.latest_measurable_data, lines 111-113: self.entity(entity), then
\* the short-circuit to [] when an id is missing
Bright7Entity ==
    /\ pc = "e7"
    /\ \E r \in KeyResponses :
        /\ reqs' = Append(reqs, EntityRequest7(node))
        /\ allEmpty' = (allEmpty /\ r = EmptyObject)
        /\ entity_id' = GetUniqueKey(r)
        /\ IF NoIds(GetUniqueKey(r), measurable_id)
           THEN Return(measurable_mapper7(First(<<>>), 0))
           ELSE /\ pc' = "d7"
                /\ UNCHANGED <<key, idx, lookedUp, checks, result, error>>
    /\ UNCHANGED <<op, node, measurable_id, ncalls>>
    /\ UNCHANGED consVars

\* Bright7.latest_measurable_data, lines 115-125: the data call
Bright7Rates ==
    /\ pc = "d7"
    /\ \E r \in Rates7Responses, now \in Times :
        /\ reqs' = Append(reqs, RatesRequest7(entity_id, measurable_id))
        /\ allEmpty' = (allEmpty /\ r = EmptyObject)
        /\ Return(measurable_mapper7(First(Augment(Items(r), key, node)), now))
    /\ UNCHANGED <<op, node, measurable_id, entity_id, ncalls>>
    /\ UNCHANGED consVars

\* Bright8.latest_measurable_data, lines 155-166
Bright8Latest ==
    /\ pc = "d8"
    /\ \E r \in Latest8Responses(key, node) :
        /\ reqs' = Append(reqs, LatestRequest8(key, node))
        /\ allEmpty' = (allEmpty /\ r = EmptyObject)
        /\ Return(measurable_mapper8(First(GetData(r))))
    /\ UNCHANGED <<op, node, measurable_id, entity_id, ncalls>>
    /\ UNCHANGED consVars

\* the request the adapter sends at position p
RequestAt(p) ==
    CASE p = "m7" -> MeasurableRequest7(key)
      [] p = "e7" -> EntityRequest7(node)
      [] p = "d7" -> RatesRequest7(entity_id, measurable_id)
      [] p = "d8" -> LatestRequest8(key, node)

\* session.post / session.get raises (timeout, connection failure): the
\* exception propagates out of the facade operation
RequestFails ==
    /\ pc \in {"m7", "e7", "d7", "d8"}
    /\ reqs' = Append(reqs, RequestAt(pc))
    /\ error' = "RequestException"
    /\ pc' = "done"
    /\ UNCHANGED <<op, key, node, idx, lookedUp, checks, result, measurable_id,
                   entity_id, allEmpty, ncalls>>
    /\ UNCHANGED consVars

\* BrightSvc.__getattr__: svc.measurable(name), run by the held adapter
measurable(k) ==
    /\ Callable
    /\ op' = "measurable"
    /\ key' = k
    /\ ncalls' = ncalls + 1
    /\ \E r \in KeyResponses :
        /\ reqs' = <<IF instance = "Bright7" THEN MeasurableRequest7(k)
                     ELSE MeasurableRequest8(k)>>
        /\ allEmpty' = (r = EmptyObject)
    /\ idx' = 0
    /\ lookedUp' = <<>>
    /\ checks' = <<>>
    /\ result' = <<>>
    /\ error' = "none"
    /\ measurable_id' = NoneKey
    /\ entity_id' = NoneKey
    /\ pc' = "done"
    /\ UNCHANGED node
    /\ UNCHANGED consVars

Next ==
    \/ InitExplicit
    \/ InitProbe
    \/ InitProbeFails
    \/ InitSelect
    \/ \E k \in CheckNames, n \in Nodes : health_check(k, n)
    \/ \E n \in Nodes : health_checks(n)
    \/ \E k \in CheckNames : measurable(k)
    \/ Bright7Measurable
    \/ Bright7Entity
    \/ Bright7Rates
    \/ Bright8Latest
    \/ RequestFails

Spec == Init /\ [][Next]_vars

-----------------------------------------------------------------------------
(* Properties *)

Supported == Range(supported_measurables)
Probes == {i \in 1..Len(reqs) : reqs[i].call = "getVersion"}
Constructing == pc \in {"new", "select", "failed"}
CheckDone == pc = "done" /\ op = "health_check"
ChecksDone == pc = "done" /\ op = "health_checks"
Answered == error # "RequestException"

\* C1: a health_check whose key is not in the allow-list returns None and has
\* sent no request, whichever adapter is held.
C1_UnsupportedIsAbsentWithoutRequest ==
    (CheckDone /\ key \notin Supported) =>
        (result = <<>> /\ reqs = <<>> /\ error = "none")

C1_Witness ==
    /\ CheckDone
    /\ key = "unsupported"
    /\ instance = "Bright7"
    /\ result = <<>>
    /\ reqs = <<>>

\* C2: a health_checks that returns has run one health_check per allow-listed
\* name, in the allow-list's order, and returns the values of those lookups
\* that are not None, in that same order, nothing added.
C2_ChecksFollowAllowList ==
    (ChecksDone /\ error = "none") =>
        LET kept == SelectSeq(checks, LAMBDA c : c # <<>>)
        IN /\ lookedUp = supported_measurables
           /\ Len(checks) = Len(supported_measurables)
           /\ result = [i \in 1..Len(kept) |-> kept[i][1]]
           /\ instance = "Bright7" =>
                \A i \in 1..Len(checks) :
                    checks[i] # <<>> => checks[i][1].name = supported_measurables[i]

C2_Witness ==
    /\ ChecksDone
    /\ error = "none"
    /\ Len(checks) = 3
    /\ checks[3] = <<>>
    /\ Len(result) = 2
    /\ result[1].name = "foo" /\ result[1].status = "ONLINE"
    /\ result[2].name = "bar" /\ result[2].status = "OFFLINE"

\* C3: when every request of a health_checks was answered with {}, the call
\* raises nothing and returns the empty list: every lookup yielded None.
C3_EmptyUpstreamGivesEmptyList ==
    (ChecksDone /\ allEmpty /\ Answered) =>
        /\ error = "none"
        /\ result = <<>>
        /\ checks = [i \in 1..Len(supported_measurables) |-> <<>>]

C3_Witness ==
    /\ ChecksDone
    /\ allEmpty
    /\ error = "none"
    /\ instance = "Bright8"
    /\ Len(reqs) = Len(supported_measurables)
    /\ result = <<>>

\* the version string s is a decimal number whose integer part is the digit d
MajorIs(s, d) ==
    /\ Len(s) >= 1
    /\ s[1] = d
    /\ Len(s) = 1 \/ (s[2] = "." /\ \A i \in 3..Len(s) : s[i] \in Digits)

FactoryRan == pc \in {"ready", "failed"} /\ Answered /\ version # None

\* C4: the factory returns Bright7 exactly for major 7, Bright8 exactly for
\* major 8, and for every other version string raises the unsupported-version
\* error (ValueError) with no adapter held.
C4_FactorySelectsByMajor ==
    FactoryRan =>
        /\ instance = "Bright7" <=> MajorIs(version, "7")
        /\ instance = "Bright8" <=> MajorIs(version, "8")
        /\ (~MajorIs(version, "7") /\ ~MajorIs(version, "8")) =>
                (pc = "failed" /\ error = "ValueError" /\ instance = "none")

\* the part of C4 the code does satisfy: selection by major, and a failed
\* construction with no adapter for every other string
FactorySelectsOrRaises ==
    FactoryRan =>
        /\ instance = "Bright7" <=> MajorIs(version, "7")
        /\ instance = "Bright8" <=> MajorIs(version, "8")
        /\ (~MajorIs(version, "7") /\ ~MajorIs(version, "8")) =>
                /\ pc = "failed" /\ instance = "none"
                /\ error = IF version = <<"i", "n", "f">> THEN "OverflowError"
                           ELSE "ValueError"

\* C5 as stated: at most one probe, sent during construction only and only
\* when the version argument is None; no probe during a facade call; the
\* adapter and the recorded version never change after construction.
C5_ProbeOnlyWithoutVersion ==
    /\ [](/\ Cardinality(Probes) <= 1
          /\ Probes # {} => (op = "init" /\ versionArg = None)
          /\ ~Constructing => instance \in {"Bright7", "Bright8"})
    /\ [][~Constructing => (instance' = instance /\ version' = version)]_vars

\* C5 amended: the probe is also sent when the version argument is the empty
\* string, which `version or ...` treats like None.
C5_AdapterChosenOnce ==
    /\ [](/\ Cardinality(Probes) <= 1
          /\ Probes # {} => (op = "init" /\ versionArg \in {None, <<>>})
          /\ ~Constructing => instance \in {"Bright7", "Bright8"})
    /\ [][~Constructing => (instance' = instance /\ version' = version)]_vars

C5_Witness ==
    /\ pc = "done"
    /\ ncalls = MaxCalls
    /\ versionArg = None
    /\ version = <<"7">>
    /\ instance = "Bright7"
    /\ Len(reqs) = 3

\* C6: every request sent carries the adapter's timeout.
C6_EveryRequestHasTimeout ==
    \A i \in 1..Len(reqs) : reqs[i].timeout = {DefaultTimeout}

\* C7: a probe that was sent either raised the transport error or gave the
\* facade a version; it never hands None to the facade.
C7_ProbeNeverReturnsNone ==
    Probes # {} => ((pc = "failed" /\ error = "RequestException") \/ version # None)

\* C8: every request of the v7 adapter is a POST to {url}/json carrying a
\* service and a call.
C8_Bright7PostsToJson ==
    (instance = "Bright7" /\ ~Constructing) =>
        \A i \in 1..Len(reqs) :
            /\ reqs[i].method = "POST"
            /\ reqs[i].path = "/json"
            /\ reqs[i].service # ""
            /\ reqs[i].call # ""

\* C9: Bright7 sends getLatestPickedRates only right after the measurable
\* lookup and the node lookup of the same fetch, and only with two ids that are
\* neither None nor 0; a fetch in which an id is missing ends after the node
\* lookup with no data call and yields None.
C9_DataCallAfterBothIds ==
    (instance = "Bright7" /\ op \in {"health_check", "health_checks"}) =>
        /\ \A i \in 1..Len(reqs) :
            reqs[i].call = "getLatestPickedRates" =>
                /\ i >= 3
                /\ reqs[i - 2].call = "getHealthcheck"
                /\ reqs[i - 1].call = "getDevice"
                /\ reqs[i].ids[1] \notin {NoneKey, 0}
                /\ reqs[i].ids[2] \notin {NoneKey, 0}
                /\ i = Len(reqs) => reqs[i].ids = <<entity_id, measurable_id>>
        /\ (pc = "d7") => (entity_id \notin {NoneKey, 0} /\ measurable_id \notin {NoneKey, 0})
        /\ (CheckDone /\ error = "none" /\ key \in Supported
              /\ (entity_id \in {NoneKey, 0} \/ measurable_id \in {NoneKey, 0})) =>
                /\ Len(reqs) = 2
                /\ reqs[2].call = "getDevice"
                /\ result = <<>>

C9_Witness ==
    /\ instance = "Bright7"
    /\ ChecksDone
    /\ error = "none"
    /\ Len(reqs) = 7
    /\ reqs[7].call = "getLatestPickedRates"
    /\ checks[1] = <<>> /\ checks[2] = <<>> /\ checks[3] # <<>>

\* C10 as stated: a health_check that ends without a transport error has sent
\* 0 requests (key not allow-listed), 1 (Bright8) or 3 (Bright7).
C10_ZeroOneOrThreeRequests ==
    (CheckDone /\ Answered) =>
        Len(reqs) = IF key \notin Supported THEN 0
                    ELSE IF instance = "Bright8" THEN 1
                    ELSE 3

\* C10 amended: Bright7 sends 2 requests when a lookup yields no id and 3
\* otherwise; every call, a repeated one included, sends its requests again.
C10_ZeroToThreeRequests ==
    (CheckDone /\ Answered) =>
        Len(reqs) = IF key \notin Supported THEN 0
                    ELSE IF instance = "Bright8" THEN 1
                    ELSE IF entity_id \in {NoneKey, 0} \/ measurable_id \in {NoneKey, 0}
                         THEN 2
                    ELSE 3

C10_Witness ==
    /\ CheckDone
    /\ error = "none"
    /\ ncalls = 2
    /\ instance = "Bright7"
    /\ key = "foo"
    /\ Len(reqs) = 2

====
